---- MODULE Spec2Model ----
(***************************************************************************)
(* A model of kvdb-alpha (src/src/main.rs): a log-structured key-value     *)
(* store made of one active segment file, a list of sealed segment files,  *)
(* an in-memory offset index per segment, size-triggered rotation and a    *)
(* compaction of the sealed segments.                                      *)
(*                                                                         *)
(* Files are sequences of bytes; a byte is a one-character string.  Keys   *)
(* and values are byte sequences too.  File names are modelled by the part *)
(* that follows the "db." prefix: the digits of a sealed segment or the    *)
(* word "current".                                                         *)
(***************************************************************************)
EXTENDS Integers, Sequences, FiniteSets, TLC

VARIABLES
    disk,      \* the data directory: file name -> file contents
    env,       \* the Environment value: [segments, write_segment]
    alive,     \* FALSE once the process has panicked (until it is started again)
    last,      \* the command handled last and its outcome
    prev,      \* env, disk, alive and last as they were before the last command
    latest,    \* for every key, what the last SET / DELETE issued for it wrote
    seen,      \* the kinds of command handled since the store was first opened, and
               \* "SEP" / "LF" / "CR" once a key with a separator / a key or value
               \* with a line feed / with a carriage return has been written
    nops,      \* number of commands handled so far
    compaction \* how far a compact_segments call taken one file operation at a
               \* time has got; Idle when none is under way

vars == <<disk, env, alive, last, prev, latest, seen, nops, compaction>>

----------------------------------------------------------------------------
(* Bounds of the model.                                                    *)

\* Number of SET / DELETE / COMPACT commands and restarts in one behaviour.
MaxOps == 4

\* Number of SET / DELETE commands that precede the first COMPACT in the
\* behaviours that take compact_segments one file operation at a time.
MaxWrites == 1

\* src/src/main.rs:8 sets SEGMENT_THRESHOLD to 256.  The model keeps the
\* comparison (size > SEGMENT_THRESHOLD) and scales the number down with the
\* records: with 4, the record "a,1\n" fills a segment exactly to the
\* threshold and the record "a,22\n" exceeds it.
SEGMENT_THRESHOLD == 4

----------------------------------------------------------------------------
(* Bytes, keys and values.                                                 *)

SEP == ","
LF == "\n"
CR == "\r"

\* main.rs:10  const DELETE_TERMINATOR: &str = "";
DELETE_TERMINATOR == <<>>

\* main.rs:9  const CURRENT_SEGMENT_SUFFIX: &str = "current";
CURRENT_SEGMENT_SUFFIX == <<"c", "u", "r", "r", "e", "n", "t">>

KeyA == <<"a">>
KeyB == <<"b">>
\* a key that contains the separator
KeySep == <<"a", SEP>>

Keys == {KeyA, KeyB, KeySep}

HasSep(s) == \E i \in 1..Len(s) : s[i] = SEP
HasLF(s) == \E i \in 1..Len(s) : s[i] = LF
HasCR(s) == \E i \in 1..Len(s) : s[i] = CR

\* a short value, a value whose record exceeds the threshold, a value that
\* ends with a line feed and one that ends with a carriage return
Val1 == <<"1">>
Val22 == <<"2", "2">>
ValLF == <<"1", LF>>
ValCR == <<"1", CR>>

Values == {Val1, Val22, ValLF, ValCR}

EmptyIndex == [k \in {} |-> 0]

----------------------------------------------------------------------------
(* Text primitives of the standard library, as the code uses them.         *)

SetMin(S) == CHOOSE i \in S : \A j \in S : i <= j
SetMax(S) == CHOOSE m \in S : \A x \in S : x <= m

\* position of the first c in s at or after position from; 0 when there is none
FirstIdx(s, c, from) ==
    LET First(S) == IF S = {} THEN 0 ELSE SetMin(S)
    IN First({i \in from..Len(s) : s[i] = c})

\* str::split_once(','): splits at the first separator
split_once(line) ==
    LET At(p) == IF p = 0 THEN [ok |-> FALSE, key |-> <<>>, val |-> <<>>]
                 ELSE [ok |-> TRUE, key |-> SubSeq(line, 1, p - 1),
                       val |-> SubSeq(line, p + 1, Len(line))]
    IN At(FirstIdx(line, SEP, 1))

\* what BufRead::lines() takes off the end of a line after its "\n": one "\r"
strip_cr(raw) == IF raw # <<>> /\ raw[Len(raw)] = CR
                 THEN SubSeq(raw, 1, Len(raw) - 1) ELSE raw

\* BufRead::lines(): the lines of a file, each without its "\n" or "\r\n";
\* a last line that no "\n" ends is a line too
RECURSIVE LinesFrom(_, _)
LinesFrom(bytes, from) ==
    LET Cut(nl) == IF nl = 0 THEN <<SubSeq(bytes, from, Len(bytes))>>
                   ELSE <<strip_cr(SubSeq(bytes, from, nl - 1))>> \o LinesFrom(bytes, nl + 1)
    IN IF from > Len(bytes) THEN <<>> ELSE Cut(FirstIdx(bytes, LF, from))

Lines(bytes) == LinesFrom(bytes, 1)

\* BufRead::read_line after seek(offset): the bytes up to and including the
\* next "\n", or up to the end of the file (offset counts from 0)
read_line(bytes, offset) ==
    LET Upto(nl) == IF nl = 0 THEN SubSeq(bytes, offset + 1, Len(bytes))
                    ELSE SubSeq(bytes, offset + 1, nl)
    IN IF offset >= Len(bytes) THEN <<>> ELSE Upto(FirstIdx(bytes, LF, offset + 1))

\* String::pop(): drops the last character, whatever it is
pop(s) == IF s = <<>> THEN s ELSE SubSeq(s, 1, Len(s) - 1)

ends_with(s, suffix) ==
    /\ Len(s) >= Len(suffix)
    /\ SubSeq(s, Len(s) - Len(suffix) + 1, Len(s)) = suffix

Digit == <<"0", "1", "2", "3", "4", "5", "6", "7", "8", "9">>

IsNumber(s) == s # <<>> /\ \A i \in 1..Len(s) : \E d \in 1..10 : Digit[d] = s[i]

\* u64::from_str_radix(s, 10) on a string of digits
RECURSIVE from_str_radix(_)
from_str_radix(s) ==
    IF s = <<>> THEN 0
    ELSE 10 * from_str_radix(SubSeq(s, 1, Len(s) - 1))
         + (CHOOSE d \in 0..9 : Digit[d + 1] = s[Len(s)])

RECURSIVE Decimal(_)
Decimal(n) == IF n < 10 THEN <<Digit[n + 1]>>
              ELSE Decimal(n \div 10) \o <<Digit[(n % 10) + 1]>>

\* format!("{:05}", n): decimal, padded with zeros to at least five digits
format_05(n) ==
    LET Pad(d) == IF Len(d) >= 5 THEN d ELSE [i \in 1..(5 - Len(d)) |-> "0"] \o d
    IN Pad(Decimal(n))

\* HashMap::insert and HashMap::remove
IndexInsert(index, key, offset) ==
    [k \in DOMAIN index \cup {key} |-> IF k = key THEN offset ELSE index[k]]

IndexRemove(index, key) == [k \in DOMAIN index \ {key} |-> index[k]]

\* all orders in which the elements of S can be enumerated
Orders(S) ==
    {o \in [1..Cardinality(S) -> S] : \A i, j \in 1..Cardinality(S) : o[i] = o[j] => i = j}

----------------------------------------------------------------------------
(* build_index, main.rs:194-213.                                           *)

\* index_lines with a slip: a line without separator is skipped
RECURSIVE index_lines_skips(_, _, _)
index_lines_skips(lines, result, current_position) ==
    LET Record(real_line, kv) ==
            IF ~kv.ok
            THEN index_lines_skips(Tail(lines), result,
                                   current_position + Len(real_line) + 1)
            ELSE index_lines_skips(Tail(lines),
                                   IndexInsert(result, kv.key, current_position),
                                   current_position + Len(real_line) + 1)
    IN IF lines = <<>>
       THEN [ok |-> TRUE, index |-> result, position |-> current_position]
       ELSE Record(Head(lines), split_once(Head(lines)))

RECURSIVE index_lines(_, _, _)
index_lines(lines, result, current_position) ==
    LET Record(real_line, kv) ==
            IF ~kv.ok
            THEN [ok |-> FALSE, index |-> result, position |-> current_position]
            ELSE index_lines(Tail(lines),
                             IndexInsert(result, kv.key, current_position),
                             current_position + Len(real_line) + 1)
    IN IF lines = <<>>
       THEN [ok |-> TRUE, index |-> result, position |-> current_position]
       ELSE Record(Head(lines), split_once(Head(lines)))

\* ok = FALSE is the panic of expect("Failed to split line ...")
build_index(bytes) == index_lines(Lines(bytes), EmptyIndex, 0)

----------------------------------------------------------------------------
(* Segment, main.rs:32-94.                                                 *)

\* File::create when the path does not exist
create_if_missing(d, file_path) ==
    IF file_path \in DOMAIN d THEN d ELSE (file_path :> <<>>) @@ d

\* Segment::new: creates the file when it is missing, indexes it by replay
\* and takes its size from the file's length.  ok = FALSE: build_index panicked.
Segment_new(d, file_path) ==
    LET Built(d1, bi) ==
            [ok |-> bi.ok, disk |-> d1,
             seg |-> [file_path |-> file_path, index |-> bi.index,
                      size |-> Len(d1[file_path])]]
        Created(d1) == Built(d1, build_index(d1[file_path]))
    IN Created(create_if_missing(d, file_path))

Result(kind, value) == [kind |-> kind, value |-> value]

\* Segment::get_data.  kind is "Ok" (an empty value: the key is not in the
\* index), "KeyDeleted", "Io" (the file cannot be opened) or "panic" (the line
\* at the offset has no separator, or another key).
Segment_get_data(seg, d, key) ==
    LET Decoded(kv, return_value) ==
            IF ~kv.ok THEN Result("panic", <<>>)
            ELSE IF kv.key # key THEN Result("panic", <<>>)
            ELSE IF return_value = DELETE_TERMINATOR THEN Result("KeyDeleted", <<>>)
            ELSE Result("Ok", return_value)
        Split(kv) == Decoded(kv, pop(kv.val))
    IN IF seg.file_path \notin DOMAIN d THEN Result("Io", <<>>)
       ELSE IF key \notin DOMAIN seg.index THEN Result("Ok", <<>>)
       ELSE Split(split_once(read_line(d[seg.file_path], seg.index[key])))

\* Segment::save_data: appends "key,value\n"; the offset stored is the
\* position of the stream after the write minus the line and its newline; the
\* size counter grows by the line and its newline.
Segment_save_data(seg, d, key, value) ==
    LET Written(line, stream_position) ==
            [res |-> "Ok",
             seg |-> [seg EXCEPT !.index = IndexInsert(@, key, stream_position - Len(line) - 1),
                                 !.size = @ + Len(line) + 1],
             disk |-> [d EXCEPT ![seg.file_path] = @ \o line \o <<LF>>]]
        Line(line) == Written(line, Len(d[seg.file_path]) + Len(line) + 1)
    IN IF seg.file_path \notin DOMAIN d THEN [res |-> "Io", seg |-> seg, disk |-> d]
       ELSE Line(key \o <<SEP>> \o value)

----------------------------------------------------------------------------
(* Environment, main.rs:96-192.                                            *)

\* Environment::new_write_segment: the segment of the file "db.current"
new_write_segment(d) == Segment_new(d, CURRENT_SEGMENT_SUFFIX)

RECURSIVE open_segments(_, _, _)
open_segments(listing, d, segments) ==
    LET Opened(s) ==
            IF ~s.ok THEN [ok |-> FALSE, disk |-> s.disk, segments |-> segments]
            ELSE open_segments(Tail(listing), s.disk, Append(segments, s.seg))
    IN IF listing = <<>> THEN [ok |-> TRUE, disk |-> d, segments |-> segments]
       ELSE Opened(Segment_new(d, Head(listing)))

\* Vec::remove(position of the first segment whose path ends with "current")
remove_current(segments) ==
    LET Remove(P, p) ==
            IF P = {} THEN segments
            ELSE SubSeq(segments, 1, p - 1) \o SubSeq(segments, p + 1, Len(segments))
        Positions(P) == Remove(P, IF P = {} THEN 0 ELSE SetMin(P))
    IN Positions({i \in 1..Len(segments) :
                      ends_with(segments[i].file_path, CURRENT_SEGMENT_SUFFIX)})

\* Environment::new: a segment for every file of the directory, in the order
\* read_dir lists them (listing); the one of "db.current" is dropped from the
\* list and opened again as the write segment.  ok = FALSE: build_index
\* panicked on one of the files.
Environment_new(d, listing) ==
    LET Started(opened, w) ==
            IF ~opened.ok
            THEN [ok |-> FALSE, disk |-> opened.disk,
                  env |-> [segments |-> <<>>, write_segment |-> w.seg]]
            ELSE [ok |-> w.ok, disk |-> w.disk,
                  env |-> [segments |-> remove_current(opened.segments),
                           write_segment |-> w.seg]]
        Opened(opened) == Started(opened, new_write_segment(opened.disk))
    IN Opened(open_segments(listing, d, <<>>))

\* Environment::next_file_name: one more than the largest number among the
\* sealed segments.  ok = FALSE: max() of no segment is None and unwrap
\* panics, or a file name is not a number.
next_file_name(e) ==
    LET Named(paths) ==
            IF paths = {} \/ \E p \in paths : ~IsNumber(p)
            THEN [ok |-> FALSE, name |-> <<>>]
            ELSE [ok |-> TRUE,
                  name |-> format_05(SetMax({from_str_radix(p) : p \in paths}) + 1)]
    IN Named({e.segments[i].file_path : i \in 1..Len(e.segments)})

\* fs::rename: moves the file, replacing a file that has the new name
rename(d, from, to) ==
    [f \in (DOMAIN d \ {from}) \cup {to} |-> IF f = to THEN d[from] ELSE d[f]]

remove_file(d, file_path) == [f \in DOMAIN d \ {file_path} |-> d[f]]

\* Environment::retire_write_segment.  res = "panic" where an unwrap fails;
\* the disk is then left as it was at that point.
retire_write_segment(e, d) ==
    LET Replaced(sealed, w) ==
            [res |-> IF w.ok THEN "Ok" ELSE "panic",
             env |-> [segments |-> Append(e.segments, sealed.seg),
                      write_segment |-> w.seg],
             disk |-> w.disk]
        Sealed(d1, sealed) ==
            IF ~sealed.ok THEN [res |-> "panic", env |-> e, disk |-> d1]
            ELSE Replaced(sealed, new_write_segment(sealed.disk))
        Renamed(d1, name) == Sealed(d1, Segment_new(d1, name))
        Named(next) ==
            IF ~next.ok THEN [res |-> "panic", env |-> e, disk |-> d]
            ELSE IF e.write_segment.file_path \notin DOMAIN d
            THEN [res |-> "panic", env |-> e, disk |-> d]
            ELSE Renamed(rename(d, e.write_segment.file_path, next.name), next.name)
    IN Named(next_file_name(e))

\* The first loop of compact_segments (main.rs:161-174): the sealed files
\* replayed in list order into total_data.  res = "Io": a file cannot be
\* opened; res = "panic": a line has no separator (unwrap).
RECURSIVE merge_lines(_, _)
merge_lines(lines, data) ==
    LET Record(kv) ==
            IF ~kv.ok THEN [ok |-> FALSE, data |-> data]
            ELSE merge_lines(Tail(lines),
                             IF kv.val = DELETE_TERMINATOR
                             THEN IndexRemove(data, kv.key)
                             ELSE IndexInsert(data, kv.key, kv.val))
    IN IF lines = <<>> THEN [ok |-> TRUE, data |-> data]
       ELSE Record(split_once(Head(lines)))

RECURSIVE merge_segments(_, _, _)
merge_segments(segments, d, data) ==
    LET Merged(m) ==
            IF ~m.ok THEN [res |-> "panic", data |-> data]
            ELSE merge_segments(Tail(segments), d, m.data)
    IN IF segments = <<>> THEN [res |-> "Ok", data |-> data]
       ELSE IF Head(segments).file_path \notin DOMAIN d
       THEN [res |-> "Io", data |-> data]
       ELSE Merged(merge_lines(Lines(d[Head(segments).file_path]), data))

\* total_data with a slip: the active segment is replayed after the sealed ones
total_data_with_active(e, d) ==
    merge_segments(Append(e.segments, e.write_segment), d, EmptyIndex)

total_data(e, d) == merge_segments(e.segments, d, EmptyIndex)

\* The second loop (main.rs:177-184): the entries of total_data written in
\* the order the HashMap yields them (order).  self.segments does not change
\* during the loop, so next_file_name() gives the same name every time.
RECURSIVE write_merged(_, _, _, _, _, _)
write_merged(current_segment, new_segments, d, data, order, name) ==
    LET Saved(saved, pushed) ==
            IF saved.res # "Ok"
            THEN [res |-> saved.res, new_segments |-> pushed, disk |-> saved.disk]
            ELSE write_merged(saved.seg, pushed, saved.disk, data, Tail(order), name)
        Fresh(fresh, pushed) ==
            IF ~fresh.ok THEN [res |-> "panic", new_segments |-> pushed, disk |-> fresh.disk]
            ELSE Saved(Segment_save_data(fresh.seg, fresh.disk, Head(order), data[Head(order)]),
                       pushed)
    IN IF order = <<>>
       THEN [res |-> "Ok", new_segments |-> Append(new_segments, current_segment), disk |-> d]
       ELSE IF current_segment.size > SEGMENT_THRESHOLD
       THEN Fresh(Segment_new(d, name), Append(new_segments, current_segment))
       ELSE Fresh([ok |-> TRUE, disk |-> d, seg |-> current_segment], new_segments)

\* The removal loop (main.rs:185-188): stops at the first file that cannot
\* be removed.
RECURSIVE remove_files(_, _)
remove_files(filenames, d) ==
    IF filenames = <<>> THEN [res |-> "Ok", disk |-> d]
    ELSE IF Head(filenames) \notin DOMAIN d THEN [res |-> "Io", disk |-> d]
    ELSE remove_files(Tail(filenames), remove_file(d, Head(filenames)))

\* Environment::compact_segments; merged is total_data(e, d) and order the
\* iteration order of that HashMap.
compact_merged(e, d, merged, order) ==
    LET Removed(written, removed) ==
            IF removed.res # "Ok" THEN [res |-> removed.res, env |-> e, disk |-> removed.disk]
            ELSE [res |-> "Ok", env |-> [e EXCEPT !.segments = written.new_segments],
                  disk |-> removed.disk]
        Written(written) ==
            IF written.res # "Ok" THEN [res |-> written.res, env |-> e, disk |-> written.disk]
            ELSE Removed(written,
                         remove_files([i \in 1..Len(e.segments) |-> e.segments[i].file_path],
                                      written.disk))
        First(first, name) ==
            IF ~first.ok THEN [res |-> "panic", env |-> e, disk |-> first.disk]
            ELSE Written(write_merged(first.seg, <<>>, first.disk, merged.data, order, name))
        Named(next) ==
            IF ~next.ok THEN [res |-> "panic", env |-> e, disk |-> d]
            ELSE First(Segment_new(d, next.name), next.name)
    IN IF merged.res # "Ok" THEN [res |-> merged.res, env |-> e, disk |-> d]
       ELSE Named(next_file_name(e))

----------------------------------------------------------------------------
(* get_data and set_data, main.rs:215-246.                                 *)

\* The loop of get_data over the sealed segments, newest (last) first.
RECURSIVE get_sealed(_, _, _, _)
get_sealed(segments, d, key, i) ==
    LET Probed(r) == IF r.kind = "Ok" /\ r.value = <<>>
                     THEN get_sealed(segments, d, key, i - 1)
                     ELSE r
    IN IF i = 0 THEN Result("Ok", <<>>)
       ELSE Probed(Segment_get_data(segments[i], d, key))

get_data(e, d, key) ==
    LET Probed(r) == IF r.kind = "Ok" /\ r.value = <<>>
                     THEN get_sealed(e.segments, d, key, Len(e.segments))
                     ELSE r
    IN Probed(Segment_get_data(e.write_segment, d, key))

set_data(e, d, key, value) ==
    LET Saved(retired, saved) ==
            [res |-> saved.res,
             env |-> [retired.env EXCEPT !.write_segment = saved.seg],
             disk |-> saved.disk]
        Retired(retired) ==
            IF retired.res # "Ok" THEN retired
            ELSE Saved(retired,
                       Segment_save_data(retired.env.write_segment, retired.disk, key, value))
    IN IF e.write_segment.size > SEGMENT_THRESHOLD
       THEN Retired(retire_write_segment(e, d))
       ELSE Retired([res |-> "Ok", env |-> e, disk |-> d])

----------------------------------------------------------------------------
(* The program: main and handle_command, main.rs:248-336.                  *)

\* The directories the store is first opened on: an empty one, one that
\* already holds the sealed segment "db.00000" with the record "a,1", and one
\* whose "db.00000" was written by hand with a second line "b" that has no
\* separator.
EmptyDir == [f \in {} |-> <<>>]
SeededDir == (format_05(0) :> (KeyA \o <<SEP>> \o Val1 \o <<LF>>))
HandCraftedDir == (format_05(0) :> (KeyA \o <<SEP>> \o Val1 \o <<LF>> \o KeyB \o <<LF>>))

Directories == {EmptyDir, SeededDir, HandCraftedDir}

NotFound == Result("Ok", <<>>)
Deleted == Result("KeyDeleted", <<>>)
Found(value) == Result("Ok", value)

\* read_dir gives no order: any order of the numbered files is a listing
\* (where "db.current" stands in it does not matter, Environment::new takes
\* it out of the list by name).
Listings(d) ==
    {(IF CURRENT_SEGMENT_SUFFIX \in DOMAIN d THEN <<CURRENT_SEGMENT_SUFFIX>> ELSE <<>>) \o o :
         o \in Orders(DOMAIN d \ {CURRENT_SEGMENT_SUFFIX})}

Observed(e, d) == [k \in Keys |-> get_data(e, d, k)]

Command(op, key, value, res) == [op |-> op, key |-> key, value |-> value, res |-> res]

\* what every command records before it acts
Before(op, key, value) ==
    /\ prev' = [env |-> env, disk |-> disk, alive |-> alive, last |-> last]
    /\ seen' = seen \cup {op} \cup (IF HasSep(key) THEN {"SEP"} ELSE {})
                     \cup (IF HasLF(key) \/ HasLF(value) THEN {"LF"} ELSE {})
                     \cup (IF HasCR(key) \/ HasCR(value) THEN {"CR"} ELSE {})
    /\ nops' = nops + 1

Open(started) ==
    /\ disk' = started.disk
    /\ env' = started.env
    /\ alive' = started.ok
    /\ last' = Command("OPEN", <<>>, <<>>, IF started.ok THEN "Ok" ELSE "panic")

Write(op, key, value, r) ==
    /\ disk' = r.disk
    /\ env' = r.env
    /\ alive' = (r.res # "panic")
    /\ last' = Command(op, key, value, r.res)
    /\ latest' = IF r.res = "Ok"
                 THEN [latest EXCEPT ![key] = IF value = DELETE_TERMINATOR
                                              THEN Deleted ELSE Found(value)]
                 ELSE latest

\* The fields of compaction.  phase is "idle", "write" (the loop over
\* total_data), "remove" (the loop over filenames) or "crashed" (the process
\* stopped inside compact_segments).  data, order, current_segment,
\* new_segments, name and filenames are the locals of compact_segments; sealed
\* holds, for every segment pushed to new_segments, the bytes of its file at
\* that moment; before is what get returned for every key when the call
\* began; recovering says that the call is the first command after a crash
\* inside a compaction and the restart that followed it.
Progress(phase, recovering, before, locals) ==
    [phase |-> phase, recovering |-> recovering, before |-> before, locals |-> locals]

NoLocals ==
    [data |-> EmptyIndex, order |-> <<>>, current_segment |-> <<>>, new_segments |-> <<>>,
     sealed |-> <<>>, name |-> <<>>, filenames |-> <<>>]

\* no compact_segments call is under way
Idle == Progress("idle", FALSE, <<>>, NoLocals)

InitOpen(started, dir) ==
    /\ disk = started.disk
    /\ env = started.env
    /\ alive = started.ok
    /\ last = Command("OPEN", <<>>, <<>>, IF started.ok THEN "Ok" ELSE "panic")
    /\ prev = [env |-> started.env, disk |-> started.disk, alive |-> started.ok,
               last |-> Command("NONE", <<>>, <<>>, "Ok")]
    /\ latest = [k \in Keys |-> IF dir # EmptyDir /\ k = KeyA THEN Found(Val1) ELSE NotFound]
    /\ seen = {}
    /\ nops = 0
    /\ compaction = Idle

Init ==
    \E dir \in Directories :
        \E listing \in Listings(dir) : InitOpen(Environment_new(dir, listing), dir)

\* handle_command, "SET" (main.rs:250-266): an empty value is ignored
Set(key, value) ==
    /\ alive
    /\ nops < MaxOps
    /\ value # <<>>
    /\ Write("SET", key, value, set_data(env, disk, key, value))
    /\ Before("SET", key, value)
    /\ UNCHANGED compaction

\* handle_command, "DELETE" (main.rs:297-308)
Delete(key) ==
    /\ alive
    /\ nops < MaxOps
    /\ Write("DELETE", key, DELETE_TERMINATOR, set_data(env, disk, key, DELETE_TERMINATOR))
    /\ Before("DELETE", key, DELETE_TERMINATOR)
    /\ UNCHANGED compaction

\* handle_command, "GET" (main.rs:267-287): prints the result and changes
\* nothing, unless Segment::get_data panics
Get(key) ==
    /\ alive
    /\ IF get_data(env, disk, key).kind = "panic"
       THEN /\ alive' = FALSE
            /\ last' = Command("GET", key, <<>>, "panic")
            /\ prev' = [env |-> env, disk |-> disk, alive |-> alive, last |-> last]
            /\ UNCHANGED <<disk, env, latest, seen, nops, compaction>>
       ELSE UNCHANGED vars

Compacted(r) ==
    /\ disk' = r.disk
    /\ env' = r.env
    /\ alive' = (r.res # "panic")
    /\ last' = Command("COMPACT", <<>>, <<>>, r.res)

CompactWith(merged) ==
    \E order \in Orders(DOMAIN merged.data) :
        Compacted(compact_merged(env, disk, merged, order))

\* handle_command, "COMPACT" (main.rs:288-296)
Compact ==
    /\ alive
    /\ nops < MaxOps
    /\ CompactWith(total_data(env, disk))
    /\ Before("COMPACT", <<>>, <<>>)
    /\ UNCHANGED <<latest, compaction>>

\* The process ends (it was stopped, or it panicked) and main runs again:
\* Environment::new on the same directory (main.rs:315).
Restart ==
    /\ nops < MaxOps
    /\ \E listing \in Listings(disk) : Open(Environment_new(disk, listing))
    /\ Before("OPEN", <<>>, <<>>)
    /\ UNCHANGED <<latest, compaction>>

Next ==
    \/ \E key \in Keys, value \in Values : Set(key, value)
    \/ \E key \in Keys : Delete(key)
    \/ \E key \in Keys : Get(key)
    \/ Compact
    \/ Restart

Spec == Init /\ [][Next]_vars

----------------------------------------------------------------------------
(* compact_segments taken one file operation at a time, main.rs:159-191.   *)

\* Directories with two sealed segments, as rotations leave them: one in
\* which both keys are live, and one in which the newer segment holds a
\* tombstone for b and a newer value for a.
TwoSegmentDir ==
    (format_05(0) :> (KeyA \o <<SEP>> \o Val1 \o <<LF>>))
    @@ (format_05(1) :> (KeyB \o <<SEP>> \o Val22 \o <<LF>>))
TombstoneDir ==
    (format_05(0) :> (KeyA \o <<SEP>> \o Val1 \o <<LF>> \o KeyB \o <<SEP>> \o Val1 \o <<LF>>))
    @@ (format_05(1) :> (KeyB \o <<SEP>> \o <<LF>> \o KeyA \o <<SEP>> \o Val22 \o <<LF>>))

\* one sealed segment whose value ends with a carriage return
CarriageReturnDir == (format_05(0) :> (KeyA \o <<SEP>> \o ValCR \o <<LF>>))

StepDirectories == {SeededDir, TwoSegmentDir, TombstoneDir, CarriageReturnDir}

StepInitOpen(started, dir) ==
    /\ disk = started.disk
    /\ env = started.env
    /\ alive = started.ok
    /\ last = Command("OPEN", <<>>, <<>>, IF started.ok THEN "Ok" ELSE "panic")
    /\ prev = [env |-> started.env, disk |-> started.disk, alive |-> started.ok,
               last |-> Command("NONE", <<>>, <<>>, "Ok")]
    /\ latest = Observed(started.env, started.disk)
    /\ seen = IF \E f \in DOMAIN dir : HasCR(dir[f]) THEN {"CR"} ELSE {}
    /\ nops = 0
    /\ compaction = Idle

StepInit ==
    \E dir \in StepDirectories :
        \E listing \in Listings(dir) : StepInitOpen(Environment_new(dir, listing), dir)

\* compact_segments returns or panics: r is its outcome
Returned(r, recovering) ==
    /\ Compacted(r)
    /\ compaction' = Progress("idle", recovering, compaction.before, NoLocals)

\* main.rs:160-176: the sealed files are replayed into total_data and the
\* first fresh segment is created.  Nothing is written to it yet.
CompactStart ==
    LET recovering == compaction.phase = "crashed" /\ last.op = "OPEN"
        Begin(first, merged, name) ==
            IF ~first.ok
            THEN Returned([res |-> "panic", env |-> env, disk |-> first.disk], recovering)
            ELSE \E order \in Orders(DOMAIN merged.data) :
                     /\ disk' = first.disk
                     /\ compaction' =
                            Progress("write", recovering, Observed(env, disk),
                                     [data |-> merged.data, order |-> order,
                                      current_segment |-> first.seg, new_segments |-> <<>>,
                                      sealed |-> <<>>, name |-> name, filenames |-> <<>>])
                     /\ last' = Command("COMPACT", <<>>, <<>>, "running")
                     /\ UNCHANGED <<env, alive>>
        Named(next, merged) ==
            IF ~next.ok
            THEN Returned([res |-> "panic", env |-> env, disk |-> disk], recovering)
            ELSE Begin(Segment_new(disk, next.name), merged, next.name)
        Merged(merged) ==
            IF merged.res # "Ok"
            THEN Returned([res |-> merged.res, env |-> env, disk |-> disk], recovering)
            ELSE Named(next_file_name(env), merged)
    IN /\ alive
       /\ compaction.phase \in {"idle", "crashed"}
       /\ nops < MaxOps
       /\ Merged(total_data(env, disk))
       /\ Before("COMPACT", <<>>, <<>>)
       /\ UNCHANGED latest

\* main.rs:177-183: one turn of the loop over total_data.  When the current
\* segment is larger than the threshold it is pushed to new_segments and a
\* segment is opened on next_file_name(), which is name again; then the entry
\* is appended.
CompactWrite ==
    LET l == compaction.locals
        Saved(saved, pushed, sealed) ==
            IF saved.res # "Ok"
            THEN Returned([res |-> saved.res, env |-> env, disk |-> saved.disk],
                          compaction.recovering)
            ELSE /\ disk' = saved.disk
                 /\ compaction' =
                        [compaction EXCEPT !.locals =
                            [l EXCEPT !.order = Tail(l.order),
                                      !.current_segment = saved.seg,
                                      !.new_segments = pushed,
                                      !.sealed = sealed]]
                 /\ UNCHANGED <<env, alive, last>>
        Fresh(fresh, pushed, sealed) ==
            IF ~fresh.ok
            THEN Returned([res |-> "panic", env |-> env, disk |-> fresh.disk],
                          compaction.recovering)
            ELSE Saved(Segment_save_data(fresh.seg, fresh.disk,
                                         Head(l.order), l.data[Head(l.order)]),
                       pushed, sealed)
    IN /\ compaction.phase = "write"
       /\ l.order # <<>>
       /\ IF l.current_segment.size > SEGMENT_THRESHOLD
          THEN Fresh(Segment_new(disk, l.name),
                     Append(l.new_segments, l.current_segment),
                     Append(l.sealed,
                            IF l.current_segment.file_path \in DOMAIN disk
                            THEN disk[l.current_segment.file_path] ELSE <<>>))
          ELSE Fresh([ok |-> TRUE, disk |-> disk, seg |-> l.current_segment],
                     l.new_segments, l.sealed)
       /\ UNCHANGED <<prev, latest, seen, nops>>

\* main.rs:184-185: the last segment is pushed and the names of the sealed
\* files are collected
CompactSeal ==
    LET l == compaction.locals
    IN /\ compaction.phase = "write"
       /\ l.order = <<>>
       /\ compaction' =
              [compaction EXCEPT
                  !.phase = "remove",
                  !.locals = [l EXCEPT
                      !.new_segments = Append(l.new_segments, l.current_segment),
                      !.sealed = Append(l.sealed,
                                        IF l.current_segment.file_path \in DOMAIN disk
                                        THEN disk[l.current_segment.file_path] ELSE <<>>),
                      !.filenames = [i \in 1..Len(env.segments) |->
                                         env.segments[i].file_path]]]
       /\ UNCHANGED <<disk, env, alive, last, prev, latest, seen, nops>>

\* main.rs:186-188: one file is removed; a file that is not there ends the
\* call with an Io error
CompactRemove ==
    LET l == compaction.locals
    IN /\ compaction.phase = "remove"
       /\ l.filenames # <<>>
       /\ IF Head(l.filenames) \notin DOMAIN disk
          THEN Returned([res |-> "Io", env |-> env, disk |-> disk], compaction.recovering)
          ELSE /\ disk' = remove_file(disk, Head(l.filenames))
               /\ compaction' = [compaction EXCEPT !.locals.filenames = Tail(l.filenames)]
               /\ UNCHANGED <<env, alive, last>>
       /\ UNCHANGED <<prev, latest, seen, nops>>

\* main.rs:189-190: self.segments = new_segments; Ok(())
CompactFinish ==
    /\ compaction.phase = "remove"
    /\ compaction.locals.filenames = <<>>
    /\ Returned([res |-> "Ok",
                 env |-> [env EXCEPT !.segments = compaction.locals.new_segments],
                 disk |-> disk],
                compaction.recovering)
    /\ UNCHANGED <<prev, latest, seen, nops>>

\* The process stops inside compact_segments: the files stay as they are.
Crash ==
    /\ compaction.phase \in {"write", "remove"}
    /\ alive' = FALSE
    /\ last' = Command("COMPACT", <<>>, <<>>, "crash")
    /\ compaction' = Progress("crashed", FALSE, compaction.before, NoLocals)
    /\ UNCHANGED <<disk, env, prev, latest, seen, nops>>

Resting == compaction.phase \in {"idle", "crashed"}

\* The step-wise behaviours write first and compact afterwards: the first
\* MaxWrites commands may be SET or DELETE, and the store is started again
\* only after it stopped.
Writing == compaction.phase = "idle" /\ "COMPACT" \notin seen /\ nops < MaxWrites

StepNext ==
    \/ Writing /\ \E key \in Keys, value \in Values : Set(key, value)
    \/ Writing /\ \E key \in Keys : Delete(key)
    \/ Resting /\ \E key \in Keys : Get(key)
    \/ CompactStart
    \/ CompactWrite
    \/ CompactSeal
    \/ CompactRemove
    \/ CompactFinish
    \/ Crash
    \/ Resting /\ ~alive /\ Restart

StepSpec == StepInit /\ [][StepNext]_vars

----------------------------------------------------------------------------
(* What the claims speak about.                                            *)

\* what get returns for every key, now and before the last command
Obs == Observed(env, disk)
PrevObs == Observed(prev.env, prev.disk)

\* every key written so far is free of separators, and every key and value
\* written so far is free of line terminators
WellFormedHistory == "SEP" \notin seen /\ "LF" \notin seen /\ "CR" \notin seen

SetCompleted == last.op = "SET" /\ last.res = "Ok"
CompactCompleted == last.op = "COMPACT" /\ last.res = "Ok"

\* the last command was a SET or DELETE issued while the active segment was
\* larger than the threshold
RotatingWrite ==
    /\ last.op \in {"SET", "DELETE"}
    /\ prev.env.write_segment.size > SEGMENT_THRESHOLD

\* the last command was the second of two COMPACTs in a row, the first of
\* which returned Ok
CompactedTwice ==
    /\ last.op = "COMPACT"
    /\ prev.last.op = "COMPACT"
    /\ prev.last.res = "Ok"

\* the running store was closed and opened again
Reopened == last.op = "OPEN" /\ nops > 0 /\ prev.alive

SealedPaths(e) == {e.segments[i].file_path : i \in 1..Len(e.segments)}
Segments(e) == {e.segments[i] : i \in 1..Len(e.segments)} \cup {e.write_segment}

\* The lines of a file, read off the bytes: a line starts at the first byte
\* and after every "\n", and runs up to the next "\n" or the end of the file.
LineStarts(bytes) == {s \in 1..Len(bytes) : s = 1 \/ bytes[s - 1] = LF}
LineEnd(bytes, s) ==
    IF \E i \in s..Len(bytes) : bytes[i] = LF
    THEN SetMin({i \in s..Len(bytes) : bytes[i] = LF}) - 1
    ELSE Len(bytes)
LineAt(bytes, s) == SubSeq(bytes, s, LineEnd(bytes, s))
HasBadLine(bytes) == \E s \in LineStarts(bytes) : ~HasSep(LineAt(bytes, s))
RecordStarts(bytes) == {s \in LineStarts(bytes) : HasSep(LineAt(bytes, s))}
KeyAt(bytes, s) == SubSeq(bytes, s, SetMin({i \in s..Len(bytes) : bytes[i] = SEP}) - 1)
ValueAt(bytes, s) ==
    SubSeq(bytes, SetMin({i \in s..Len(bytes) : bytes[i] = SEP}) + 1, LineEnd(bytes, s))
RecordKeys(bytes) == {KeyAt(bytes, s) : s \in RecordStarts(bytes)}
LastRecordStart(bytes, k) == SetMax({s \in RecordStarts(bytes) : KeyAt(bytes, s) = k})

\* the records of a file in file order, and of a set of sealed files taken
\* oldest (lowest number) first
FileRecords(bytes) ==
    LET starts == RecordStarts(bytes)
        Nth(n) == CHOOSE s \in starts : Cardinality({t \in starts : t < s}) = n - 1
    IN [n \in 1..Cardinality(starts) |->
            [key |-> KeyAt(bytes, Nth(n)), val |-> ValueAt(bytes, Nth(n))]]

RECURSIVE RecordsOldestFirst(_, _)
RecordsOldestFirst(paths, d) ==
    IF paths = {} THEN <<>>
    ELSE LET oldest == CHOOSE p \in paths :
                           \A q \in paths : from_str_radix(p) <= from_str_radix(q)
         IN FileRecords(d[oldest]) \o RecordsOldestFirst(paths \ {oldest}, d)

MostRecent(records, k) == records[SetMax({i \in 1..Len(records) : records[i].key = k})]
LiveKeys(records) ==
    {k \in {records[i].key : i \in 1..Len(records)} : MostRecent(records, k).val # <<>>}

SealedBefore == RecordsOldestFirst(SealedPaths(prev.env), prev.disk)
SealedNow == RecordsOldestFirst(SealedPaths(env), disk)

\* size is the length of the file, and the index holds, for every key with
\* a record in the file, the offset of the last record of that key
SegmentInvariant(seg, d) ==
    /\ seg.file_path \in DOMAIN d
    /\ seg.size = Len(d[seg.file_path])
    /\ \A k \in RecordKeys(d[seg.file_path]) :
           /\ k \in DOMAIN seg.index
           /\ seg.index[k] = LastRecordStart(d[seg.file_path], k) - 1

----------------------------------------------------------------------------
(* The claims.                                                             *)

\* C1: round trip.  After a SET k v that completed, with k free of the
\* separator and v not empty, get(k) returns v.
C1_RoundTrip ==
    (SetCompleted /\ ~HasSep(last.key) /\ last.value # <<>>)
        => get_data(env, disk, last.key) = Found(last.value)

\* C1, for values without a line terminator: this part of the round trip
\* holds in every reachable state, whatever was written before.
C1_RoundTripOfLines ==
    (SetCompleted /\ ~HasSep(last.key) /\ ~HasLF(last.key) /\ ~HasLF(last.value))
        => get_data(env, disk, last.key) = Found(last.value)

\* C2: last write wins.  After SET and DELETE commands alone (no COMPACT, no
\* restart), none of which wrote a line terminator, get(k) returns for every
\* key k without separator what the last SET or DELETE of k wrote: its value,
\* Deleted, or NotFound when there was none.
C2_LastWriteWins ==
    (alive /\ seen \subseteq {"SET", "DELETE", "SEP"})
        => \A k \in Keys : ~HasSep(k) => Obs[k] = latest[k]

\* C2, for histories that wrote no key with a separator either: holds.
C2_LastWriteWinsWellFormed ==
    (alive /\ seen \subseteq {"SET", "DELETE"}) => \A k \in Keys : Obs[k] = latest[k]

\* C3: rotation transparency.  A SET or DELETE issued while the active
\* segment is larger than the threshold completes, adds exactly one sealed
\* segment and leaves get unchanged for every other key (stated for
\* well-formed histories).
C3_RotationTransparency ==
    (RotatingWrite /\ WellFormedHistory)
        => /\ last.res = "Ok"
           /\ Len(env.segments) = Len(prev.env.segments) + 1
           /\ \A k \in Keys \ {last.key} : Obs[k] = PrevObs[k]

\* C4: compaction equivalence.  get returns for every key the same before
\* and after a COMPACT that completed; a key that was Deleted is still Deleted
\* (stated for well-formed histories).
C4_CompactionEquivalence ==
    (CompactCompleted /\ WellFormedHistory) => \A k \in Keys : Obs[k] = PrevObs[k]

\* C4, apart from tombstones: on well-formed histories get returns for every
\* key the same before and after a COMPACT that completed, except that a key
\* that was Deleted may be NotFound afterwards.  This part holds.
C4_CompactionKeepsValues ==
    (CompactCompleted /\ WellFormedHistory)
        => \A k \in Keys : \/ Obs[k] = PrevObs[k]
                           \/ PrevObs[k] = Deleted /\ Obs[k] = NotFound

\* C4, for every history: the same statement as C4_CompactionEquivalence
\* without the restriction to well-formed histories.
C4_CompactionEquivalenceAnyHistory ==
    CompactCompleted => \A k \in Keys : Obs[k] = PrevObs[k]

\* C5: compaction idempotence.  The second of two COMPACTs in a row returns
\* Ok and leaves get unchanged for every key (stated for well-formed
\* histories).
C5_CompactionIdempotent ==
    (CompactedTwice /\ WellFormedHistory)
        => last.res = "Ok" /\ \A k \in Keys : Obs[k] = PrevObs[k]

\* C6: restart recovery.  Closing the store and opening it again on the same
\* directory, listed in any order, succeeds and leaves get unchanged for
\* every key (stated for well-formed histories).
C6_RestartRecovery ==
    (Reopened /\ WellFormedHistory)
        => last.res = "Ok" /\ \A k \in Keys : Obs[k] = PrevObs[k]

\* C7: compaction output is minimal.  After a COMPACT that completed, the
\* sealed files hold no tombstone, and exactly one record for every key whose
\* most recent record in the sealed files before it (oldest file first) was a
\* value, holding that value, and no other record (stated for well-formed
\* histories).
C7_CompactionMinimal ==
    (CompactCompleted /\ WellFormedHistory)
        => /\ \A i \in 1..Len(SealedNow) :
                  /\ SealedNow[i].val # <<>>
                  /\ SealedNow[i].key \in LiveKeys(SealedBefore)
                  /\ SealedNow[i].val = MostRecent(SealedBefore, SealedNow[i].key).val
           /\ \A k \in LiveKeys(SealedBefore) :
                  Cardinality({i \in 1..Len(SealedNow) : SealedNow[i].key = k}) = 1

\* C8: invalid key rejection.  A SET or DELETE with a key that contains the
\* separator fails with InvalidKey and changes no file, index or size, and no
\* get hits an index that does not match its file.
C8_InvalidKeyRejected ==
    /\ (last.op \in {"SET", "DELETE"} /\ HasSep(last.key))
           => last.res = "InvalidKey" /\ disk = prev.disk /\ env = prev.env
    /\ alive => \A k \in Keys : Obs[k].kind # "panic"

\* C9: corruption detection.  For every file with a line that has no
\* separator, building its index fails and so does replaying it for a
\* compaction; no sealed segment of a running store has such a file (every
\* sealed segment got its index from build_index), and opening the store on a
\* directory with such a file fails.
C9_CorruptionDetected ==
    /\ \A f \in DOMAIN disk :
           HasBadLine(disk[f]) => /\ ~build_index(disk[f]).ok
                                  /\ ~merge_lines(Lines(disk[f]), EmptyIndex).ok
    /\ alive => \A f \in SealedPaths(env) \cap DOMAIN disk : ~HasBadLine(disk[f])
    /\ (last.op = "OPEN" /\ \E f \in DOMAIN prev.disk : HasBadLine(prev.disk[f]))
           => last.res = "panic"

\* C9's case: a running store wrote a file that holds a line without
\* separator, was closed and opened again, and the opening failed.
C9_Witness ==
    /\ Reopened
    /\ last.res = "panic"
    /\ \E f \in DOMAIN disk : HasBadLine(disk[f]) /\ ~build_index(disk[f]).ok

\* C10: segment invariant.  Between commands every segment the store holds
\* has size equal to the length of its file and an index that gives, for
\* every key with a record in the file, the offset of its last record
\* (stated for well-formed histories).
C10_SegmentInvariant ==
    (alive /\ WellFormedHistory) => \A seg \in Segments(env) : SegmentInvariant(seg, disk)

\* the sequence number of a sealed segment, read off its file name
SequenceNumber(seg) == from_str_radix(seg.file_path)

\* C11: sealed-list ordering.  Whenever the store is running (right after it
\* was opened on a directory listed in any order, after every rotation and
\* after every compaction) the sealed segments carry strictly ascending
\* sequence numbers in list order, so no two entries name the same file; and
\* a rotation gives the segment it seals one more than the largest number
\* there was (stated for well-formed histories).
C11_SealedListAscending ==
    (alive /\ WellFormedHistory)
        => /\ \A i, j \in 1..Len(env.segments) :
                  i < j => SequenceNumber(env.segments[i]) < SequenceNumber(env.segments[j])
           /\ (RotatingWrite /\ last.res = "Ok")
                  => SequenceNumber(env.segments[Len(env.segments)])
                         = SetMax({SequenceNumber(prev.env.segments[i]) :
                                       i \in 1..Len(prev.env.segments)}) + 1

\* C11, the allocation of numbers alone: a rotation that completes gives the
\* segment it seals one more than the largest number among the sealed
\* segments there were.  This part holds, whatever was written before.
C11_NextNumber ==
    (RotatingWrite /\ last.res = "Ok")
        => SequenceNumber(env.segments[Len(env.segments)])
               = SetMax({SequenceNumber(prev.env.segments[i]) :
                             i \in 1..Len(prev.env.segments)}) + 1

\* C12: sealed segments are immutable.  Inside compact_segments, the file of
\* every segment that was closed off and pushed to new_segments still holds
\* the bytes it held at that moment (stated for well-formed histories).
C12_ClosedOffUnchanged ==
    (compaction.phase \in {"write", "remove"} /\ WellFormedHistory)
        => \A i \in 1..Len(compaction.locals.new_segments) :
               \/ compaction.locals.new_segments[i].file_path \notin DOMAIN disk
               \/ disk[compaction.locals.new_segments[i].file_path]
                      = compaction.locals.sealed[i]

\* C12, for the segments of the sealed list: no step changes the file of a
\* segment that is in the sealed list; the file stays as it is or is deleted.
\* This part holds.
C12_ListedUnchanged ==
    [][\A p \in SealedPaths(env) \cap DOMAIN disk :
           p \in DOMAIN disk' => disk'[p] = disk[p]]_vars

\* the records of the sealed segments of e, in list order
RECURSIVE RecordsInListOrder(_, _)
RecordsInListOrder(segments, d) ==
    IF segments = <<>> THEN <<>>
    ELSE (IF Head(segments).file_path \in DOMAIN d
          THEN FileRecords(d[Head(segments).file_path]) ELSE <<>>)
         \o RecordsInListOrder(Tail(segments), d)

\* some file on disk holds the record (k, v)
OnDisk(k, v) ==
    \E f \in DOMAIN disk :
        \E i \in 1..Len(FileRecords(disk[f])) :
            FileRecords(disk[f])[i] = [key |-> k, val |-> v]

InsideCompaction == compaction.phase \in {"write", "remove"}

\* the sealed files as they were when the compaction began are all in place
OriginalsInPlace ==
    \A p \in SealedPaths(prev.env) \cap DOMAIN prev.disk :
        p \in DOMAIN disk /\ disk[p] = prev.disk[p]

\* C13: compaction ordering.  Inside compact_segments, taken one file
\* operation at a time: while entries of the merged map are still to be
\* written no original sealed file has been deleted; and at every step every
\* key that is live in the sealed data (the latest record for it in the
\* sealed list, as it was when the call began, holds a value) has that value
\* in a record of some file on disk.
C13_CompactionOrdering ==
    InsideCompaction
        => /\ compaction.phase = "write" => OriginalsInPlace
           /\ \A k \in LiveKeys(RecordsInListOrder(prev.env.segments, prev.disk)) :
                  OnDisk(k, MostRecent(RecordsInListOrder(prev.env.segments, prev.disk), k).val)

\* C13, the order of the file operations alone: while entries are still to
\* be written no original sealed file has been deleted, and once files are
\* being deleted every entry of the merged map is in a record of a new
\* segment's file.  This part holds.
C13_WritesBeforeDeletes ==
    /\ compaction.phase = "write" => OriginalsInPlace
    /\ compaction.phase = "remove"
           => \A k \in DOMAIN compaction.locals.data :
                  \E i \in 1..Len(compaction.locals.new_segments) :
                      LET f == compaction.locals.new_segments[i].file_path
                      IN /\ f \in DOMAIN disk
                         /\ \E n \in 1..Len(FileRecords(disk[f])) :
                                FileRecords(disk[f])[n]
                                    = [key |-> k, val |-> compaction.locals.data[k]]

\* C13, on well-formed histories: the whole statement holds.
C13_CompactionOrderingWellFormed ==
    (InsideCompaction /\ WellFormedHistory)
        => /\ compaction.phase = "write" => OriginalsInPlace
           /\ \A k \in LiveKeys(RecordsInListOrder(prev.env.segments, prev.disk)) :
                  OnDisk(k, MostRecent(RecordsInListOrder(prev.env.segments, prev.disk), k).val)

HasValue(r) == r.kind = "Ok" /\ r.value # <<>>

\* the store has just been opened again after the process stopped inside
\* compact_segments
ReopenedAfterCrash == last.op = "OPEN" /\ prev.last.res = "crash"

\* the compact() that followed such a reopening has returned
CompactedAfterCrash ==
    /\ last.op = "COMPACT"
    /\ compaction.phase = "idle"
    /\ compaction.recovering

Ascending(segments) ==
    \A i, j \in 1..Len(segments) :
        i < j => SequenceNumber(segments[i]) < SequenceNumber(segments[j])

\* C14: crash during compaction.  When the process stops at any step inside
\* compact_segments and the store is opened again on the directory, the
\* opening succeeds and get returns a value for exactly the keys that had a
\* value when the compaction began, and the same value; and the compact()
\* that follows returns Ok (stated for well-formed histories).
C14_CrashRecovery ==
    /\ (ReopenedAfterCrash /\ WellFormedHistory)
           => /\ last.res = "Ok"
              /\ \A k \in Keys :
                     IF HasValue(compaction.before[k])
                     THEN Obs[k] = compaction.before[k]
                     ELSE ~HasValue(Obs[k])
    /\ (CompactedAfterCrash /\ WellFormedHistory) => last.res = "Ok"

\* C14, when the directory was listed in ascending order at both openings:
\* this part holds.
C14_CrashRecoveryInOrder ==
    /\ (ReopenedAfterCrash /\ WellFormedHistory
            /\ Ascending(prev.env.segments) /\ Ascending(env.segments))
           => /\ last.res = "Ok"
              /\ \A k \in Keys :
                     IF HasValue(compaction.before[k])
                     THEN Obs[k] = compaction.before[k]
                     ELSE ~HasValue(Obs[k])
    /\ (CompactedAfterCrash /\ WellFormedHistory /\ Ascending(prev.env.segments))
           => last.res = "Ok"

\* the records a reader gets from the files of the sealed list of e, line by
\* line
SealedRead(e, d) ==
    UNION {{split_once(Lines(d[f])[n]) : n \in 1..Len(Lines(d[f]))} :
               f \in SealedPaths(e) \cap DOMAIN d}

\* the files other than the active one that are new or have changed since
\* the last command began
WrittenFiles ==
    {f \in DOMAIN disk \ {CURRENT_SEGMENT_SUFFIX} :
         f \notin DOMAIN prev.disk \/ disk[f] # prev.disk[f]}

\* C15: compaction frame.  After a COMPACT, however it ended, the active
\* segment is as it was: the same file contents, index and size; and every
\* record in a file the compaction wrote is a record read from the sealed
\* files, so a record that was only in the active segment has not been copied.
C15_CompactionFrame ==
    last.op = "COMPACT"
        => /\ env.write_segment = prev.env.write_segment
           /\ CURRENT_SEGMENT_SUFFIX \in DOMAIN disk
           /\ disk[CURRENT_SEGMENT_SUFFIX] = prev.disk[CURRENT_SEGMENT_SUFFIX]
           /\ \A f \in WrittenFiles :
                  \A n \in 1..Len(Lines(disk[f])) :
                      split_once(Lines(disk[f])[n]) \in SealedRead(prev.env, prev.disk)

\* C15's case: a COMPACT completed and wrote a record while the active
\* segment held a record for a key that no sealed file had.
C15_Witness ==
    /\ CompactCompleted
    /\ \E f \in WrittenFiles : disk[f] # <<>>
    /\ \E k \in DOMAIN env.write_segment.index :
           \A r \in SealedRead(prev.env, prev.disk) : r.key # k

\* the bytes of the sealed files in list order
RECURSIVE SealedBytes(_, _)
SealedBytes(segments, d) ==
    IF segments = <<>> THEN <<>>
    ELSE (IF Head(segments).file_path \in DOMAIN d THEN d[Head(segments).file_path] ELSE <<>>)
         \o SealedBytes(Tail(segments), d)

\* the log: the sealed files in list order followed by the active file
Log(e, d) ==
    SealedBytes(e.segments, d)
    \o (IF e.write_segment.file_path \in DOMAIN d THEN d[e.write_segment.file_path] ELSE <<>>)

\* the line of the record the last SET or DELETE wrote
LastLine == last.key \o <<SEP>> \o last.value \o <<LF>>

\* what a rotating write leaves when the rotation changed no record, sealed
\* the former active file as the last segment of the list with the index it
\* had, and started an empty active segment that then took the new record
RotationKeptRecords ==
    /\ last.res = "Ok"
    /\ Log(env, disk) = Log(prev.env, prev.disk) \o LastLine
    /\ Len(env.segments) = Len(prev.env.segments) + 1
    /\ SubSeq(env.segments, 1, Len(prev.env.segments)) = prev.env.segments
    /\ env.segments[Len(env.segments)].file_path \in DOMAIN disk
    /\ disk[env.segments[Len(env.segments)].file_path]
           = prev.disk[prev.env.write_segment.file_path]
    /\ env.segments[Len(env.segments)].index = prev.env.write_segment.index
    /\ env.write_segment = [file_path |-> CURRENT_SEGMENT_SUFFIX,
                            index |-> (last.key :> 0),
                            size |-> Len(LastLine)]
    /\ disk[CURRENT_SEGMENT_SUFFIX] = LastLine

\* C16: rotation preserves records.  After a SET or DELETE that rotated and
\* completed, the log (sealed files in list order, then the active file) is
\* the one of before followed by the new record, the former active file is
\* the last sealed segment and has the index it had as active segment, and
\* the new active segment was empty, with size 0 and an empty index, when it
\* took the new record.
C16_RotationPreservesRecords ==
    (RotatingWrite /\ last.res = "Ok") => RotationKeptRecords

\* C16, on well-formed histories: this part holds.
C16_RotationPreservesRecordsWellFormed ==
    (RotatingWrite /\ last.res = "Ok" /\ WellFormedHistory) => RotationKeptRecords

\* C16, the files alone: a rotation that completes changes no record and
\* renames the active file, whatever was written before.  This part holds.
C16_RotationKeepsLog ==
    (RotatingWrite /\ last.res = "Ok")
        => /\ Log(env, disk) = Log(prev.env, prev.disk) \o LastLine
           /\ disk[env.segments[Len(env.segments)].file_path]
                  = prev.disk[prev.env.write_segment.file_path]
           /\ disk[CURRENT_SEGMENT_SUFFIX] = LastLine

Wrote == last.op \in {"SET", "DELETE"}

\* the last write went to the segment that was active, without a rotation
AppendedInPlace ==
    /\ last.res = "Ok"
    /\ env.segments = prev.env.segments
    /\ disk[CURRENT_SEGMENT_SUFFIX] = prev.disk[CURRENT_SEGMENT_SUFFIX] \o LastLine

\* the last write rotated, and went to the new active segment; the segment
\* sealed is larger than the threshold
AppendedAfterRotation ==
    /\ last.res = "Ok"
    /\ Len(env.segments) = Len(prev.env.segments) + 1
    /\ env.segments[Len(env.segments)].size > SEGMENT_THRESHOLD
    /\ disk[CURRENT_SEGMENT_SUFFIX] = LastLine

ActiveWithinBound ==
    (Wrote /\ last.res = "Ok") => env.write_segment.size <= SEGMENT_THRESHOLD + Len(LastLine)

\* C17: rotation trigger.  Every SET and DELETE rotates exactly when the
\* active segment's size is greater than the threshold at the call, and its
\* record is always appended to the segment that is active after that check;
\* every segment sealed by a rotation is larger than the threshold, and after
\* the write the active segment is no larger than the threshold plus the
\* record written (stated for well-formed histories).
C17_RotationTrigger ==
    (Wrote /\ WellFormedHistory)
        => /\ IF prev.env.write_segment.size > SEGMENT_THRESHOLD
              THEN AppendedAfterRotation
              ELSE AppendedInPlace
           /\ ActiveWithinBound

\* C17, the trigger alone, whatever was written before: a write issued at a
\* size up to the threshold appends in place; one issued above it rotates and
\* appends to the new active segment, or panics inside the rotation and
\* appends nothing.  This part holds.
C17_TriggerOrPanic ==
    Wrote
        => /\ IF prev.env.write_segment.size > SEGMENT_THRESHOLD
              THEN \/ AppendedAfterRotation
                   \/ last.res = "panic" /\ ~alive /\ env = prev.env
              ELSE AppendedInPlace
           /\ ActiveWithinBound

\* the index and the size counter kept by save_data for the active segment
\* are those a replay of its file from offset 0 gives
ReplayAgrees ==
    LET Agrees(replay) ==
            /\ replay.ok
            /\ replay.index = env.write_segment.index
            /\ replay.position = env.write_segment.size
    IN Agrees(build_index(disk[CURRENT_SEGMENT_SUFFIX]))

AppendedToActive == alive /\ Wrote /\ last.res = "Ok"

\* C18: index rebuild agrees with the incremental index.  After any sequence
\* of appends to the active segment's file with keys free of the separator
\* and keys and values free of the line terminator, build_index on the file
\* gives the index kept by save_data, key for key and offset for offset, and
\* the cursor at the end of the replay is the segment's size counter.
C18_RebuildAgreesWithAppend ==
    (AppendedToActive /\ "SEP" \notin seen /\ "LF" \notin seen) => ReplayAgrees

\* C18 for keys and values that also do not end in a carriage return: holds.
C18_RebuildAgreesWithAppendNoCR ==
    (AppendedToActive /\ WellFormedHistory) => ReplayAgrees

HoldsValue(result) == result.kind = "Ok" /\ result.value # <<>>

\* every key that had a value has the same value, and no other key has one
ValuesKept(before, after) ==
    \A k \in Keys : /\ HoldsValue(before[k]) => after[k] = before[k]
                    /\ before[k] \in {NotFound, Deleted} => ~HoldsValue(after[k])

\* C19: compaction never resurrects or alters a value.  For every COMPACT
\* that completes and every key k: when get(k) returned a value before the
\* call it returns the same value after it, and when it returned Deleted or
\* NotFound before the call it returns no value after it.
C19_NoResurrection ==
    CompactCompleted => ValuesKept(PrevObs, Obs)

\* C19 for keys free of separators and keys and values free of line feeds and
\* carriage returns: holds.
C19_NoResurrectionWellFormed ==
    (CompactCompleted /\ WellFormedHistory) => ValuesKept(PrevObs, Obs)

\* C20: compaction with nothing to compact.  A COMPACT issued while the list
\* of sealed segments is empty returns Ok and leaves get unchanged for every
\* key.
C20_CompactNothing ==
    (last.op = "COMPACT" /\ prev.env.segments = <<>>)
        => /\ last.res = "Ok"
           /\ alive
           /\ \A k \in Keys : Obs[k] = PrevObs[k]

\* C20, what the program does instead: every COMPACT issued while the list of
\* sealed segments is empty panics and leaves the files as they were.
C20_CompactNothingPanics ==
    (last.op = "COMPACT" /\ prev.env.segments = <<>>)
        => /\ last.res = "panic"
           /\ ~alive
           /\ disk = prev.disk

====
